---- MODULE Spec2Model ----
(***************************************************************************)
(* A model of the spey / madstats hypothesis-testing core:                 *)
(*   - StatisticsCombiner (spey/combiner/statistics_combiner.py): the      *)
(*     model list with append / remove / keyed lookup, and the joint       *)
(*     likelihood / asimov_likelihood sums;                                *)
(*   - Recorder (madstats/base/recorder.py): the per-POI record, the       *)
(*     best-likelihood slot and the process-wide switch.                   *)
(* Floating-point values are pairs <<kind, n>>: a finite number, an        *)
(* infinity or NaN; single precision is a coarser grid than double.        *)
(***************************************************************************)
EXTENDS Integers, Sequences, FiniteSets, TLC

VARIABLES
    statistical_models,        \* StatisticsCombiner._statistical_models
    stamp,                     \* ghost: the append call that added each held model
    clock,                     \* ghost: number of successful append calls so far
    call,                      \* the public call made last or in progress: its inputs,
                               \* local variables and outcome
    RECORD,                    \* Recorder.RECORD, the class-level switch
    poi_test_record,           \* Recorder._poi_test_record, per instance
    maximum_likelihood_record, \* Recorder._maximum_likelihood_record, per instance
    rcall,                     \* ghost: the last Recorder call, its inputs and outcome
    snap,                      \* ghost: both records as they were at the last turn_off
    touched,                   \* ghost: the keys recorded since the last turn_off
    nrec                       \* ghost: number of record_* calls so far

vars == <<statistical_models, stamp, clock, call, RECORD, poi_test_record,
          maximum_likelihood_record, rcall, snap, touched, nrec>>

combinerVars == <<statistical_models, stamp, clock, call>>
recorderVars == <<RECORD, poi_test_record, maximum_likelihood_record, rcall,
                  snap, touched, nrec>>

-----------------------------------------------------------------------------
(* Bounds of the model *)

MaxAppends == 5     \* successful append calls explored
MaxMinPoi == 2      \* a member's minimum_poi is one of -1..-MaxMinPoi
MaxNll == 2         \* finite member NLL values are 0..MaxNll
MaxPoi == 2         \* double-precision POI / NLL arguments are 0..MaxPoi
MaxRecords == 2     \* record_* calls explored
MaxRoot == 2        \* the roots the solver returns are 1..MaxRoot
MaxIndex == 4       \* integer indices asked of the combiner are -MaxIndex..MaxIndex
MaxFits == 2        \* fit calls one caller makes
NPars == 2          \* parameters of the fitted model, the POI among them
MaxExp == 4         \* binary exponents of finite floats are -MaxExp..MaxExp
MaxSigma == 5       \* test statistics and shifts are -MaxSigma..MaxSigma standard deviations
MaxStat == 3        \* finite likelihood values handed to teststatistics are 0..MaxStat

-----------------------------------------------------------------------------
(* Floating-point values *)

NaN == <<"nan", 0>>
PInf == <<"inf", 1>>
NInf == <<"inf", -1>>
Num(n) == <<"num", n>>
IsNaN(v) == v[1] = "nan"

\* float addition: NaN is absorbing, inf + -inf is NaN
FAdd(a, b) ==
    IF IsNaN(a) \/ IsNaN(b) THEN NaN
    ELSE IF a[1] = "inf" /\ b[1] = "inf" THEN (IF a = b THEN a ELSE NaN)
    ELSE IF a[1] = "inf" THEN a
    ELSE IF b[1] = "inf" THEN b
    ELSE Num(a[2] + b[2])

\* np.exp(-nll): e^(-n) is kept symbolic for finite n
ExpNeg(v) ==
    IF IsNaN(v) THEN NaN
    ELSE IF v = PInf THEN Num(0)
    ELSE IF v = NInf THEN PInf
    ELSE <<"exp", 0 - v[2]>>

-----------------------------------------------------------------------------
(* The objects handed to the combiner *)

ExpectationType == {"observed", "aposteriori", "apriori"}

\* Objects a caller may pass to append: four StatisticalModel instances (two of
\* them carry the same analysis name) and one object of another type.
Objects ==
    { [id |-> 1, type |-> "StatisticalModel", analysis |-> "atlas"],
      [id |-> 2, type |-> "StatisticalModel", analysis |-> "atlas"],
      [id |-> 3, type |-> "StatisticalModel", analysis |-> "cms"],
      [id |-> 4, type |-> "StatisticalModel", analysis |-> "lhcb"],
      [id |-> 5, type |-> "dict", analysis |-> "cms"] }

AnalysisNames == {"atlas", "cms", "lhcb", "unknown"}

NoCall == [op |-> "init"]

\* Python's None, as the loops of remove and __getitem__ use it
None == [id |-> 0, type |-> "NoneType", analysis |-> ""]

Range(s) == {s[i] : i \in 1..Len(s)}

\* StatisticsCombiner.analyses
analyses(models) == [i \in 1..Len(models) |-> models[i].analysis]

\* list.remove(x): drops the first element equal to x
RECURSIVE ListRemove(_, _)
ListRemove(s, x) ==
    IF s = <<>> THEN <<>>
    ELSE IF Head(s) = x THEN Tail(s)
    ELSE <<Head(s)>> \o ListRemove(Tail(s), x)

\* a remove that takes the head of the list whatever its name
ToRemove_Head(models, analysis) ==
    IF models = <<>> THEN None ELSE models[1]

\* the loop of remove: the last model whose name matches, None when there is none
ToRemove(models, analysis) ==
    LET hits == {i \in 1..Len(models) : models[i].analysis = analysis}
    IN IF hits = {} THEN None
       ELSE models[CHOOSE i \in hits : \A j \in hits : j <= i]

\* the loop of __getitem__ for a name: the first model whose name matches
FirstNamed(models, item) ==
    LET hits == {i \in 1..Len(models) : models[i].analysis = item}
    IN IF hits = {} THEN None
       ELSE models[CHOOSE i \in hits : \A j \in hits : i <= j]

\* an append that puts the new model in front
AppendStore_Front(models, m) == <<m>> \o models

\* what append does to the list when it accepts the model
AppendStore(models, m) == Append(models, m)

\* an append with no duplicate test
AlreadyExists_Never(models, m) == FALSE

\* a duplicate test on the object instead of on its analysis name
AlreadyExists_ByIdentity(models, m) == m \in Range(models)

\* the duplicate test of append
AlreadyExists(models, m) == m.analysis \in Range(analyses(models))

-----------------------------------------------------------------------------
(* StatisticsCombiner: append, remove, __getitem__ *)

CombinerInit ==
    /\ statistical_models = <<>>
    /\ stamp = [o \in Objects |-> 0]
    /\ clock = 0
    /\ call = NoCall

RecorderIdle ==
    /\ RECORD = FALSE
    /\ poi_test_record = <<>>
    /\ maximum_likelihood_record = <<>>
    /\ rcall = NoCall
    /\ snap = <<>>
    /\ touched = {}
    /\ nrec = 0

AppendModel(m) ==
    /\ clock < MaxAppends
    /\ IF m.type = "StatisticalModel"
       THEN IF AlreadyExists(statistical_models, m)
            THEN /\ call' = [op |-> "append", arg |-> m, before |-> statistical_models,
                             raised |-> "AnalysisQueryError"]
                 /\ UNCHANGED <<statistical_models, stamp, clock>>
            ELSE /\ statistical_models' = AppendStore(statistical_models, m)
                 /\ clock' = clock + 1
                 /\ stamp' = [stamp EXCEPT ![m] = clock + 1]
                 /\ call' = [op |-> "append", arg |-> m, before |-> statistical_models,
                             raised |-> "none"]
       ELSE /\ call' = [op |-> "append", arg |-> m, before |-> statistical_models,
                        raised |-> "TypeError"]
            /\ UNCHANGED <<statistical_models, stamp, clock>>
    /\ UNCHANGED recorderVars

RemoveAnalysis(analysis) ==
    LET to_remove == ToRemove(statistical_models, analysis)
    IN /\ IF to_remove = None
          THEN /\ call' = [op |-> "remove", arg |-> analysis,
                           before |-> statistical_models,
                           raised |-> "AnalysisQueryError"]
               /\ UNCHANGED <<statistical_models, stamp>>
          ELSE /\ statistical_models' = ListRemove(statistical_models, to_remove)
               /\ stamp' = [stamp EXCEPT ![to_remove] = 0]
               /\ call' = [op |-> "remove", arg |-> analysis,
                           before |-> statistical_models, raised |-> "none"]
       /\ UNCHANGED clock
       /\ UNCHANGED recorderVars

GetItemName(item) ==
    LET found == FirstNamed(statistical_models, item)
    IN /\ call' = [op |-> "getitem", arg |-> item, before |-> statistical_models,
                   raised |-> IF found = None THEN "AnalysisQueryError" ELSE "none",
                   ret |-> found]
       /\ UNCHANGED <<statistical_models, stamp, clock>>
       /\ UNCHANGED recorderVars

\* list[item] of Python: positions count from 0, negative ones from the end
ListIndex(s, item) ==
    IF item >= 0 /\ item < Len(s) THEN [raised |-> "none", ret |-> s[item + 1]]
    ELSE IF item < 0 /\ item >= 0 - Len(s)
         THEN [raised |-> "none", ret |-> s[Len(s) + item + 1]]
         ELSE [raised |-> "IndexError", ret |-> None]

\* __getitem__ with an int
GetItemInt(item) ==
    LET out == IF item < Len(statistical_models)
               THEN ListIndex(statistical_models, item)
               ELSE [raised |-> "AnalysisQueryError", ret |-> None]
    IN /\ call' = [op |-> "getitem_int", arg |-> item, before |-> statistical_models,
                   raised |-> out.raised, ret |-> out.ret]
       /\ UNCHANGED <<statistical_models, stamp, clock>>
       /\ UNCHANGED recorderVars

Next ==
    \/ \E m \in Objects : AppendModel(m)
    \/ \E a \in AnalysisNames : RemoveAnalysis(a)
    \/ \E a \in AnalysisNames : GetItemName(a)
    \/ \E i \in (0 - MaxIndex)..MaxIndex : GetItemInt(i)

Init == CombinerInit /\ RecorderIdle

Spec == Init /\ [][Next]_vars

-----------------------------------------------------------------------------
(* StatisticsCombiner: likelihood, asimov_likelihood *)

\* What one member's likelihood call does: it returns a float, or raises
\* NegativeExpectedYields.
Raise == <<"raise", 0>>
NoValue == <<"none", 0>>
Floats == {NaN, PInf, NInf} \cup {Num(n) : n \in 0..MaxNll}
Outcomes == Floats \cup {Raise}
POIs == 0..MaxPoi

\* StatisticsCombiner(*args): append of each argument in turn; the
\* construction fails when one append raises
RECURSIVE Construct(_, _)
Construct(models, args) ==
    IF args = <<>> THEN models
    ELSE IF Head(args).type # "StatisticalModel" \/ AlreadyExists(models, Head(args))
         THEN <<None>>
         ELSE Construct(AppendStore(models, Head(args)), Tail(args))

ArgLists == UNION {[1..n -> Objects] : n \in 0..3}
Constructed == {Construct(<<>>, args) : args \in ArgLists} \ {<<None>>}

\* nll = ... in place of nll += ...
Accumulate_Assign(nll, v) == v

\* nll += statistical_model.likelihood(...)
Accumulate(nll, v) == FAdd(nll, v)

\* a loop that never leaves early
ShouldBreak_Never(nll) == FALSE

\* if np.isnan(nll): break
ShouldBreak(nll) == IsNaN(nll)

\* the loop of likelihood from member i on: NegativeExpectedYields is caught
\* and turns the sum into NaN
RECURSIVE LikelihoodLoop(_, _, _)
LikelihoodLoop(resp, i, nll) ==
    IF i > Len(resp) THEN [nll |-> nll, evaluated |-> i - 1, raised |-> "none"]
    ELSE LET next == IF resp[i] = Raise THEN NaN ELSE Accumulate(nll, resp[i])
         IN IF ShouldBreak(next)
            THEN [nll |-> next, evaluated |-> i, raised |-> "none"]
            ELSE LikelihoodLoop(resp, i + 1, next)

\* the loop of asimov_likelihood from member i on: there is no try / except
\* around the member call
RECURSIVE AsimovLoop(_, _, _)
AsimovLoop(resp, i, nll) ==
    IF i > Len(resp) THEN [nll |-> nll, evaluated |-> i - 1, raised |-> "none"]
    ELSE IF resp[i] = Raise
         THEN [nll |-> NoValue, evaluated |-> i, raised |-> "NegativeExpectedYields"]
         ELSE LET next == Accumulate(nll, resp[i])
              IN IF ShouldBreak(next)
                 THEN [nll |-> next, evaluated |-> i, raised |-> "none"]
                 ELSE AsimovLoop(resp, i + 1, next)

\* return nll if return_nll or np.isnan(nll) else np.exp(-nll)
Finish(nll, return_nll) ==
    IF return_nll \/ IsNaN(nll) THEN nll ELSE ExpNeg(nll)

LikelihoodInit ==
    /\ statistical_models \in Constructed
    /\ stamp = [o \in Objects |->
                   IF o \in Range(statistical_models)
                   THEN CHOOSE i \in 1..Len(statistical_models) : statistical_models[i] = o
                   ELSE 0]
    /\ clock = Len(statistical_models)
    /\ call = NoCall

\* likelihood reads the combiner and changes nothing: one call is applied to
\* each constructed combiner. resp[i] is what member i's likelihood does at
\* (poi_test, expected).
Likelihood(poi_test, expected, return_nll, resp) ==
    LET out == LikelihoodLoop(resp, 1, Num(0))
    IN /\ call.op = "init"
       /\ call' = [op |-> "likelihood", poi_test |-> poi_test, expected |-> expected,
                   return_nll |-> return_nll, resp |-> resp,
                   evaluated |-> out.evaluated, raised |-> out.raised,
                   ret |-> Finish(out.nll, return_nll)]
       /\ UNCHANGED <<statistical_models, stamp, clock>>
       /\ UNCHANGED recorderVars

\* resp[i] is what member i's asimov_likelihood does at (poi_test, expected)
AsimovLikelihood(poi_test, expected, return_nll, resp) ==
    LET out == AsimovLoop(resp, 1, Num(0))
    IN /\ call.op = "init"
       /\ call' = [op |-> "asimov_likelihood", poi_test |-> poi_test,
                   expected |-> expected, return_nll |-> return_nll, resp |-> resp,
                   evaluated |-> out.evaluated, raised |-> out.raised,
                   ret |-> IF out.raised = "none" THEN Finish(out.nll, return_nll)
                           ELSE NoValue]
       /\ UNCHANGED <<statistical_models, stamp, clock>>
       /\ UNCHANGED recorderVars

LikelihoodNext ==
    \/ call.op = "init" /\
          \E poi_test \in POIs, expected \in ExpectationType, return_nll \in BOOLEAN,
             resp \in [1..Len(statistical_models) -> Outcomes] :
              Likelihood(poi_test, expected, return_nll, resp)
    \/ call.op = "init" /\
          \E poi_test \in POIs, expected \in ExpectationType, return_nll \in BOOLEAN,
             resp \in [1..Len(statistical_models) -> Outcomes] :
              AsimovLikelihood(poi_test, expected, return_nll, resp)

InitLikelihood == LikelihoodInit /\ RecorderIdle

SpecLikelihood == InitLikelihood /\ [][LikelihoodNext]_vars

-----------------------------------------------------------------------------
(* Recorder *)

Recorders == {"r1", "r2"}       \* two Recorder instances sharing the class switch
NLLs == 0..MaxNll

\* np.float32(x) of a double x: single precision is a grid F32Step times
\* coarser than double; round to nearest, ties to the even neighbour
F32Step == 3
F32(x) ==
    LET q == x \div F32Step
        r == x % F32Step
    IN IF 2 * r < F32Step THEN q * F32Step
       ELSE IF 2 * r > F32Step THEN (q + 1) * F32Step
       ELSE IF q % 2 = 0 THEN q * F32Step ELSE (q + 1) * F32Step

\* the "not found" sentinel False, as a get_poi_test result and as a slot
NotFound == <<"False", 0>>
EmptySlot == <<"False", 0, 0>>
Found(nll) == <<"float", nll>>
Pair(poi, nll) == <<"pair", poi, nll>>

\* Recorder.__init__
EmptyPoiRecord == [e \in ExpectationType |-> <<>>]
EmptyMlRecord == [e \in ExpectationType |-> EmptySlot]

\* dict.get(key, False)
DictGet(d, key) == IF key \in DOMAIN d THEN Found(d[key]) ELSE NotFound

\* dict.update({key: value})
DictUpdate(d, key, value) ==
    [k \in DOMAIN d \cup {key} |-> IF k = key THEN value ELSE d[k]]

\* a get_poi_test that does not look at the switch
get_poi_test_IgnoresSwitch(on, record, expected, poi_test) ==
    DictGet(record[expected], F32(poi_test))

\* Recorder.get_poi_test on an instance whose _poi_test_record is record
get_poi_test(on, record, expected, poi_test) ==
    IF on THEN DictGet(record[expected], F32(poi_test)) ELSE NotFound

\* Recorder.get_maximum_likelihood
get_maximum_likelihood(on, record, expected) ==
    IF on THEN record[expected] ELSE EmptySlot

\* a record_poi_test that stores nothing
record_poi_test_Noop(record, expected, poi_test, negative_loglikelihood) ==
    record

\* a record_poi_test that files the entry under every expectation type
record_poi_test_AllTypes(record, expected, poi_test, negative_loglikelihood) ==
    [e \in DOMAIN record |->
        DictUpdate(record[e], F32(poi_test), F32(negative_loglikelihood))]

\* Recorder.record_poi_test: the new _poi_test_record
record_poi_test(record, expected, poi_test, negative_loglikelihood) ==
    [record EXCEPT ![expected] =
        DictUpdate(@, F32(poi_test), F32(negative_loglikelihood))]

\* Recorder.record_maximum_likelihood: the new _maximum_likelihood_record
record_maximum_likelihood(on, record, expected, poi_test, negative_loglikelihood) ==
    LET poi == F32(poi_test)
        nll == F32(negative_loglikelihood)
        current == get_maximum_likelihood(on, record, expected)
        keep == current # EmptySlot /\ current[3] < nll
    IN IF keep THEN record ELSE [record EXCEPT ![expected] = Pair(poi, nll)]

\* The likelihood of the model that owns the Recorder, at double precision: a
\* fixed function of the expectation type and the POI.
Compute(expected, poi_test) ==
    IF expected = "apriori" THEN MaxPoi - poi_test ELSE poi_test

\* The owner's use of the Recorder: the recorded NLL when get_poi_test finds
\* one, otherwise the computed one. What it returns, given the switch.
CachedValue(on, record, expected, poi_test) ==
    LET hit == get_poi_test(on, record, expected, poi_test)
    IN IF hit # NotFound THEN hit ELSE Found(Compute(expected, poi_test))

NoSnap == [taken |-> FALSE]

RecorderInit ==
    /\ RECORD = FALSE
    /\ poi_test_record = [r \in Recorders |-> EmptyPoiRecord]
    /\ maximum_likelihood_record = [r \in Recorders |-> EmptyMlRecord]
    /\ rcall = NoCall
    /\ snap = NoSnap
    /\ touched = {}
    /\ nrec = 0

CombinerIdle ==
    /\ statistical_models = <<>>
    /\ stamp = <<>>
    /\ clock = 0
    /\ call = NoCall

TurnOff ==
    /\ RECORD' = FALSE
    /\ rcall' = [op |-> "turn_off"]
    /\ UNCHANGED <<poi_test_record, maximum_likelihood_record, nrec>>
    /\ UNCHANGED combinerVars

TurnOn ==
    /\ RECORD' = TRUE
    /\ rcall' = [op |-> "turn_on"]
    /\ UNCHANGED <<poi_test_record, maximum_likelihood_record, nrec>>
    /\ UNCHANGED combinerVars

GetPoiTest(r, expected, poi_test) ==
    /\ rcall' = [op |-> "get_poi_test", r |-> r, expected |-> expected,
                 poi_test |-> poi_test,
                 ret |-> get_poi_test(RECORD, poi_test_record[r], expected, poi_test)]
    /\ UNCHANGED <<RECORD, poi_test_record, maximum_likelihood_record, nrec>>
    /\ UNCHANGED combinerVars

GetMaximumLikelihood(r, expected) ==
    /\ rcall' = [op |-> "get_maximum_likelihood", r |-> r, expected |-> expected,
                 ret |-> get_maximum_likelihood(RECORD, maximum_likelihood_record[r],
                                                expected)]
    /\ UNCHANGED <<RECORD, poi_test_record, maximum_likelihood_record, nrec>>
    /\ UNCHANGED combinerVars

RecordPoiTest(r, expected, poi_test, negative_loglikelihood) ==
    /\ nrec < MaxRecords
    /\ nrec' = nrec + 1
    /\ poi_test_record' = [poi_test_record EXCEPT ![r] =
           record_poi_test(@, expected, poi_test, negative_loglikelihood)]
    /\ rcall' = [op |-> "record_poi_test"]
    /\ UNCHANGED <<RECORD, maximum_likelihood_record>>
    /\ UNCHANGED combinerVars

RecordMaximumLikelihood(r, expected, poi_test, negative_loglikelihood) ==
    /\ nrec < MaxRecords
    /\ nrec' = nrec + 1
    /\ maximum_likelihood_record' = [maximum_likelihood_record EXCEPT ![r] =
           record_maximum_likelihood(RECORD, @, expected, poi_test,
                                     negative_loglikelihood)]
    /\ rcall' = [op |-> "record_maximum_likelihood"]
    /\ UNCHANGED <<RECORD, poi_test_record>>
    /\ UNCHANGED combinerVars

\* One likelihood request of the owner of Recorder r: look the POI up,
\* compute and record on a miss. ret_off is what the same request returns
\* with the switch off.
CachedLikelihood(r, expected, poi_test) ==
    LET hit == get_poi_test(RECORD, poi_test_record[r], expected, poi_test)
    IN /\ IF hit # NotFound
          THEN UNCHANGED <<poi_test_record, nrec>>
          ELSE /\ nrec < MaxRecords
               /\ nrec' = nrec + 1
               /\ poi_test_record' = [poi_test_record EXCEPT ![r] =
                      record_poi_test(@, expected, poi_test,
                                      Compute(expected, poi_test))]
       /\ rcall' = [op |-> "likelihood", hit |-> hit # NotFound,
                    ret |-> CachedValue(RECORD, poi_test_record[r], expected, poi_test),
                    ret_off |-> CachedValue(FALSE, poi_test_record[r], expected,
                                            poi_test)]
       /\ UNCHANGED <<RECORD, maximum_likelihood_record>>
       /\ UNCHANGED combinerVars

\* get_* read the Recorder and change nothing, so whatever can follow a read
\* can follow the state it was made in: a read is explored as the last call
Reading == rcall.op \in {"get_poi_test", "get_maximum_likelihood"}

Ghosts == <<snap, touched>>

\* the calls, with the ghosts left alone
RecorderNext ==
    \/ ~Reading /\ TurnOff /\ UNCHANGED Ghosts
    \/ ~Reading /\ TurnOn /\ UNCHANGED Ghosts
    \/ ~Reading /\ \E r \in Recorders, e \in ExpectationType, poi \in POIs :
           GetPoiTest(r, e, poi) /\ UNCHANGED Ghosts
    \/ ~Reading /\ \E r \in Recorders, e \in ExpectationType :
           GetMaximumLikelihood(r, e) /\ UNCHANGED Ghosts
    \/ ~Reading /\ \E r \in Recorders, e \in ExpectationType, poi \in POIs, nll \in NLLs :
           RecordPoiTest(r, e, poi, nll) /\ UNCHANGED Ghosts
    \/ ~Reading /\ \E r \in Recorders, e \in ExpectationType, poi \in POIs, nll \in NLLs :
           RecordMaximumLikelihood(r, e, poi, nll) /\ UNCHANGED Ghosts
    \/ ~Reading /\ \E r \in Recorders, e \in ExpectationType, poi \in POIs :
           CachedLikelihood(r, e, poi) /\ UNCHANGED Ghosts

InitRecorder == RecorderInit /\ CombinerIdle

SpecRecorder == InitRecorder /\ [][RecorderNext]_vars

\* The calls that change the switch or a record, watched across the switch:
\* snap keeps both records as turn_off found them, touched the keys recorded
\* since. What get_* return is a function of the state and is read off it.
PoiKey(r, expected, poi_test) == <<r, "poi", expected, F32(poi_test)>>
SlotKey(r, expected) == <<r, "slot", expected, 0>>

WatchedNext ==
    \/ /\ TurnOff
       /\ snap' = [taken |-> TRUE, poi |-> poi_test_record,
                   ml |-> maximum_likelihood_record]
       /\ touched' = {}
    \/ TurnOn /\ UNCHANGED <<snap, touched>>
    \/ \E r \in Recorders, e \in ExpectationType, poi \in POIs, nll \in NLLs :
          /\ RecordPoiTest(r, e, poi, nll)
          /\ touched' = touched \cup {PoiKey(r, e, poi)}
          /\ UNCHANGED snap
    \/ \E r \in Recorders, e \in ExpectationType, poi \in POIs, nll \in NLLs :
          /\ RecordMaximumLikelihood(r, e, poi, nll)
          /\ touched' = touched \cup {SlotKey(r, e)}
          /\ UNCHANGED snap

SpecSwitch == InitRecorder /\ [][WatchedNext]_vars

-----------------------------------------------------------------------------
(* Float arithmetic of the test-statistic and p-value code. A finite float is
   a point Num(n) of an integer grid; results are rounded to the nearest
   point. *)

FNeg(a) ==
    IF IsNaN(a) THEN NaN
    ELSE IF a[1] = "inf" THEN <<"inf", 0 - a[2]>>
    ELSE Num(0 - a[2])

FSub(a, b) == FAdd(a, FNeg(b))

\* 2.0 * a
Twice(a) == IF a[1] = "num" THEN Num(2 * a[2]) ELSE a

\* a < b and a <= b: False as soon as one side is NaN
FLt(a, b) ==
    /\ ~IsNaN(a)
    /\ ~IsNaN(b)
    /\ a # b
    /\ \/ a = NInf
       \/ b = PInf
       \/ a[1] = "num" /\ b[1] = "num" /\ a[2] < b[2]
FLe(a, b) == ~IsNaN(a) /\ ~IsNaN(b) /\ (a = b \/ FLt(a, b))

\* Python's max(a, b): b only when b > a, so a NaN in first place is returned
PyMax(a, b) == IF FLt(a, b) THEN b ELSE a

\* the grid point nearest to the square root of n >= 0
SqrtNearest(n) ==
    LET s == CHOOSE k \in 0..n : k * k <= n /\ (k + 1) * (k + 1) > n
    IN IF n - s * s > s THEN s + 1 ELSE s

\* np.sqrt
FSqrt(a) ==
    IF IsNaN(a) \/ a = NInf THEN NaN
    ELSE IF a = PInf THEN PInf
    ELSE IF a[2] < 0 THEN NaN
    ELSE Num(SqrtNearest(a[2]))

\* the grid point nearest to n / d, d > 0
DivNearest(n, d) == (2 * n + d) \div (2 * d)

\* numpy float division: x / 0 is an infinity or NaN, never an exception
FDiv(a, b) ==
    IF IsNaN(a) \/ IsNaN(b) THEN NaN
    ELSE IF a[1] = "inf" /\ b[1] = "inf" THEN NaN
    ELSE IF a[1] = "inf" THEN (IF FLt(b, Num(0)) THEN FNeg(a) ELSE a)
    ELSE IF b[1] = "inf" THEN Num(0)
    ELSE IF b[2] = 0 THEN (IF a[2] = 0 THEN NaN
                           ELSE IF a[2] > 0 THEN PInf ELSE NInf)
    ELSE IF b[2] > 0 THEN Num(DivNearest(a[2], b[2]))
    ELSE Num(DivNearest(0 - a[2], 0 - b[2]))

-----------------------------------------------------------------------------
(* teststatistics *)

TestStats == {"qtilde", "q", "q0"}

\* the likelihood values handed to teststatistics
StatValues == {NaN, PInf, NInf} \cup {Num(n) : n \in 0..MaxStat}

\* a qmu without the clamp
ClampQmu_NoClamp(nll, min_negloglikelihood) ==
    Twice(FSub(nll, min_negloglikelihood))

\* qmu, line 82
ClampQmu(nll, min_negloglikelihood) ==
    LET d == Twice(FSub(nll, min_negloglikelihood))
    IN IF FLt(d, Num(0)) THEN Num(0) ELSE d

\* qmuA, line 83
ClampQmuA(nllA, min_negloglikelihood_asimov) ==
    PyMax(Twice(FSub(nllA, min_negloglikelihood_asimov)), Num(0))

\* a branch test that sends q0 through the qtilde branches
PlainDifference_QOnly(test_stat) == test_stat = "q"

\* the test of line 86
PlainDifference(test_stat) == test_stat \in {"q", "q0"}

\* test_statistics, lines 86-92
SignedStatistic(test_stat, qmu, qmuA) ==
    LET sqrt_qmu == FSqrt(qmu)
        sqrt_qmuA == FSqrt(qmuA)
    IN IF PlainDifference(test_stat) THEN FSub(sqrt_qmu, sqrt_qmuA)
       ELSE IF FLe(sqrt_qmu, sqrt_qmuA) THEN FSub(sqrt_qmu, sqrt_qmuA)
       ELSE FDiv(FSub(qmu, qmuA), Twice(sqrt_qmuA))

\* teststatistics with the four likelihood values given as floats
Teststatistics(negloglikelihood_asimov, min_negloglikelihood_asimov, negloglikelihood, min_negloglikelihood, test_stat) ==
    LET qmu == ClampQmu(negloglikelihood, min_negloglikelihood)
        qmuA == ClampQmuA(negloglikelihood_asimov, min_negloglikelihood_asimov)
    IN /\ call' = [op |-> "teststatistics", test_stat |-> test_stat,
                   nllA |-> negloglikelihood_asimov,
                   min_nllA |-> min_negloglikelihood_asimov,
                   nll |-> negloglikelihood, min_nll |-> min_negloglikelihood,
                   qmu |-> qmu, qmuA |-> qmuA,
                   sqrt_qmu |-> FSqrt(qmu), sqrt_qmuA |-> FSqrt(qmuA),
                   test_statistics |-> SignedStatistic(test_stat, qmu, qmuA)]
       /\ UNCHANGED <<statistical_models, stamp, clock>>
       /\ UNCHANGED recorderVars

-----------------------------------------------------------------------------
(* AsymptoticTestStatisticsDistribution, pvalues, expected_pvalues.
   Test-statistic values, shifts and cutoffs are grid points in units of one
   standard deviation; a probability is a grid point in units of 1 / One, the
   unit being the smallest positive double the normal CDF returns. *)

One == 12

\* multivariate_normal.cdf of the standard normal: increasing, symmetric
\* about 0, exactly 0 and exactly 1 far in the tails
Cdf(x) ==
    IF IsNaN(x) THEN NaN
    ELSE IF x = NInf THEN Num(0)
    ELSE IF x = PInf THEN Num(One)
    ELSE LET n == x[2]
         IN Num(IF n <= -4 THEN 0
                ELSE IF n = -3 THEN 1
                ELSE IF n = -2 THEN 2
                ELSE IF n = -1 THEN 4
                ELSE IF n = 0 THEN 6
                ELSE IF n = 1 THEN 8
                ELSE IF n = 2 THEN 10
                ELSE IF n = 3 THEN 11
                ELSE One)

\* AsymptoticTestStatisticsDistribution.__init__
Distribution(shift, cutoff) == [shift |-> shift, cutoff |-> cutoff]

\* AsymptoticTestStatisticsDistribution.pvalue
Pvalue(self, value) ==
    LET return_value == Cdf(FSub(self.shift, value))
    IN IF FLe(self.cutoff, return_value) THEN return_value ELSE NaN

\* an expected_value that keeps the smaller of tot and cutoff
ExpectedValue_Smaller(self, nsigma) ==
    LET tot == FAdd(nsigma, self.shift)
    IN IF FLt(tot, self.cutoff) THEN tot ELSE self.cutoff

\* AsymptoticTestStatisticsDistribution.expected_value
ExpectedValue(self, nsigma) ==
    LET tot == FAdd(nsigma, self.shift)
    IN IF FLt(self.cutoff, tot) THEN tot ELSE self.cutoff

\* the cast of a double to np.float32
ToFloat32(a) == IF a[1] = "num" THEN Num(F32(a[2])) ELSE a

\* np.true_divide(CLsb, CLb, dtype=np.float32) of two probabilities: both
\* are cast to single precision, then divided in single precision
TrueDivideFloat32(CLsb, CLb) ==
    LET a == ToFloat32(CLsb)
        b == ToFloat32(CLb)
    IN IF a[1] = "num" /\ b[1] = "num" /\ b[2] # 0
       THEN ToFloat32(FDiv(Num(a[2] * One), b))
       ELSE FDiv(a, b)

\* CLb != 0.0, line 116
NotZero(CLb) == CLb # Num(0)

\* pvalues: three one-element lists
pvalues(teststatistic, sig_plus_bkg_distribution, bkg_only_distribution) ==
    LET CLsb == Pvalue(sig_plus_bkg_distribution, teststatistic)
        CLb == Pvalue(bkg_only_distribution, teststatistic)
        CLs == TrueDivideFloat32(CLsb, CLb)
    IN << <<CLsb>>, <<CLb>>, <<IF NotZero(CLb) THEN CLs ELSE Num(0)>> >>

\* the nsigma list of the docstring of expected_pvalues
NSigmas_Ascending == <<-2, -1, 0, 1, 2>>

\* the nsigma list of line 144
NSigmas == <<2, 1, 0, -1, -2>>

\* the test statistics expected_pvalues hands to pvalues, in call order
ExpectedInputs(bkg_only_distribution) ==
    [i \in 1..Len(NSigmas) |-> ExpectedValue(bkg_only_distribution, Num(NSigmas[i]))]

\* expected_pvalues: list(map(list, zip(*[pvalues(...) for nsigma in ...])))
expected_pvalues(sig_plus_bkg_distribution, bkg_only_distribution) ==
    LET inputs == ExpectedInputs(bkg_only_distribution)
        rows == [i \in 1..Len(inputs) |->
                    pvalues(inputs[i], sig_plus_bkg_distribution, bkg_only_distribution)]
    IN [k \in 1..3 |-> [i \in 1..Len(rows) |-> rows[i][k]]]

\* inputs of the calls
Sigmas == {Num(n) : n \in (0 - MaxSigma)..MaxSigma}
Shifts == Sigmas \cup {NInf, NaN}
Cutoffs == {NInf, PInf} \cup {Num(n) : n \in -1..1}
Distributions == {Distribution(shift, cutoff) : shift \in Shifts, cutoff \in Cutoffs}
\* the distributions compute_confidence_level builds (cutoff -inf), and the
\* signal-plus-background one with the cutoff 0 of the expected computation
SigPlusBkg == {Distribution(FNeg(s), c) : s \in {Num(n) : n \in 0..MaxSigma},
                                          c \in {NInf, Num(0)}}
BkgOnly == Distribution(Num(0), NInf)

PvaluesCall(teststatistic, sig_plus_bkg_distribution) ==
    LET ret == pvalues(teststatistic, sig_plus_bkg_distribution, BkgOnly)
    IN /\ call' = [op |-> "pvalues", teststatistic |-> teststatistic,
                   sig_plus_bkg_distribution |-> sig_plus_bkg_distribution,
                   CLsb |-> ret[1][1], CLb |-> ret[2][1], CLs |-> ret[3][1],
                   ret |-> ret]
       /\ UNCHANGED <<statistical_models, stamp, clock>>
       /\ UNCHANGED recorderVars

ExpectedValueCall(self, nsigma) ==
    /\ call' = [op |-> "expected_value", self |-> self, nsigma |-> nsigma,
                ret |-> ExpectedValue(self, nsigma)]
    /\ UNCHANGED <<statistical_models, stamp, clock>>
    /\ UNCHANGED recorderVars

ExpectedPvaluesCall(sig_plus_bkg_distribution, bkg_only_distribution) ==
    /\ call' = [op |-> "expected_pvalues",
                sig_plus_bkg_distribution |-> sig_plus_bkg_distribution,
                bkg_only_distribution |-> bkg_only_distribution,
                inputs |-> ExpectedInputs(bkg_only_distribution),
                ret |-> expected_pvalues(sig_plus_bkg_distribution,
                                         bkg_only_distribution)]
    /\ UNCHANGED <<statistical_models, stamp, clock>>
    /\ UNCHANGED recorderVars

\* compute_confidence_level: the two distributions it builds, the branch it
\* takes and the list it returns
ComputeConfidenceLevel(sqrt_qmuA, test_statistic, expected, test_stat) ==
    LET sig_plus_bkg_distribution == Distribution(FNeg(sqrt_qmuA), NInf)
        bkg_only_distribution == Distribution(Num(0), NInf)
        observed_branch == expected \in {"observed", "apriori"}
        triple == IF observed_branch
                  THEN pvalues(test_statistic, sig_plus_bkg_distribution,
                               bkg_only_distribution)
                  ELSE expected_pvalues(sig_plus_bkg_distribution,
                                        bkg_only_distribution)
    IN /\ call' = [op |-> "compute_confidence_level", sqrt_qmuA |-> sqrt_qmuA,
                   test_statistic |-> test_statistic, expected |-> expected,
                   test_stat |-> test_stat,
                   sig_plus_bkg_distribution |-> sig_plus_bkg_distribution,
                   bkg_only_distribution |-> bkg_only_distribution,
                   branch |-> IF observed_branch THEN "pvalues" ELSE "expected_pvalues",
                   ret |-> IF test_stat = "qtilde" THEN triple[3] ELSE triple[1]]
       /\ UNCHANGED <<statistical_models, stamp, clock>>
       /\ UNCHANGED recorderVars

\* one call of one of the functions, on inputs of the caller's choice
HypothesisNext ==
    \/ call.op = "init" /\
          \E sqrt_qmuA \in {Num(n) : n \in 0..MaxSigma}, test_statistic \in Sigmas,
             expected \in ExpectationType, test_stat \in TestStats :
              ComputeConfidenceLevel(sqrt_qmuA, test_statistic, expected, test_stat)
    \/ call.op = "init" /\
          \E nllA \in StatValues, min_nllA \in StatValues, nll \in StatValues,
             min_nll \in StatValues, test_stat \in TestStats :
              Teststatistics(nllA, min_nllA, nll, min_nll, test_stat)
    \/ call.op = "init" /\
          \E t \in Sigmas \cup {NaN}, sb \in SigPlusBkg : PvaluesCall(t, sb)
    \/ call.op = "init" /\
          \E self \in Distributions, nsigma \in Sigmas : ExpectedValueCall(self, nsigma)
    \/ call.op = "init" /\
          \E sb \in SigPlusBkg, b \in Distributions : ExpectedPvaluesCall(sb, b)

InitHypothesis == CombinerIdle /\ RecorderIdle

SpecHypothesis == InitHypothesis /\ [][HypothesisNext]_vars

-----------------------------------------------------------------------------
(* find_root_limits. The bounds low and hig only ever change by a factor of
   two, so a float is written sign * 2^e: Pos(e), Neg(e), Zero, and -inf once
   the exponent of a negative float overflows. *)

\* the bail-out limits 1e-10 and 1e10 lie between 2^-LimitExp-1 .. 2^-LimitExp
\* and 2^LimitExp .. 2^LimitExp+1 (33 for a double, scaled down here)
LimitExp == 2

Pos(e) == <<"pos", e>>
Neg(e) == <<"neg", e>>
Zero == <<"zero", 0>>
MinusInf == <<"ninf", 0>>

\* low *= 0.5
Halve(x) ==
    IF x[1] \in {"pos", "neg"}
    THEN (IF x[2] - 1 < 0 - MaxExp THEN Zero ELSE <<x[1], x[2] - 1>>)
    ELSE x

\* hig *= 2.0
Double(x) ==
    IF x[1] = "pos" THEN Pos(x[2] + 1)
    ELSE IF x[1] = "neg" THEN (IF x[2] + 1 > MaxExp THEN MinusInf ELSE Neg(x[2] + 1))
    ELSE x

\* low < 1e-10
BelowLowLimit(x) == x[1] = "pos" => x[2] < 0 - LimitExp

\* hig > 1e10
AboveHigLimit(x) == x[1] = "pos" /\ x[2] > LimitExp

\* The computer functions: constant ones, and monotone ones that cross loc at
\* a root 2^(root/2) inside the limits. What they return is compared with
\* loc only, so a value is -1, 0 or 1: below, at or above loc.
loc == 0
Roots == (0 - 2 * LimitExp)..(2 * LimitExp)
Computers ==
    [kind : {"constant"}, value : {-1, 0, 1}]
        \cup [kind : {"decreasing", "increasing"}, root : Roots]

\* x against the root of a monotone computer: -1 left of it, 0 on it, 1 right
Side(x, root) ==
    IF x[1] # "pos" THEN -1
    ELSE IF 2 * x[2] < root THEN -1
    ELSE IF 2 * x[2] = root THEN 0
    ELSE 1

\* computer(x)
Eval(computer, x) ==
    IF computer.kind = "constant" THEN computer.value
    ELSE IF computer.kind = "increasing" THEN Side(x, computer.root)
    ELSE 0 - Side(x, computer.root)

\* a first loop that goes on while computer(low) is below loc
LowContinues_Below(computer, low) == Eval(computer, low) < loc

\* the tests of the two while loops
LowContinues(computer, low) == Eval(computer, low) > loc
HigContinues(computer, hig) == Eval(computer, hig) < loc

\* the initial guesses a caller may pass
Guesses ==
    {Pos(e) : e \in (0 - LimitExp - 1)..(LimitExp + 1)} \cup {Zero, Neg(0)}

\* find_root_limits is entered: low, hig = low_ini, hig_ini. passes is the
\* parity of the number of times a loop body ran through to the next test.
FindRootLimits(computer, low_ini, hig_ini) ==
    /\ call.op = "init"
    /\ call' = [op |-> "find_root_limits", computer |-> computer,
                low_ini |-> low_ini, hig_ini |-> hig_ini,
                low |-> low_ini, hig |-> hig_ini, pc |-> "low_loop",
                low_break |-> FALSE, hig_break |-> FALSE, passes |-> 0]
    /\ UNCHANGED <<statistical_models, stamp, clock>>
    /\ UNCHANGED recorderVars

\* one pass of the first while loop: the test, and the body when it holds
LowLoop ==
    /\ call.op = "find_root_limits"
    /\ call.pc = "low_loop"
    /\ call' =
          IF LowContinues(call.computer, call.low)
          THEN LET low == Halve(call.low)
               IN IF BelowLowLimit(low)
                  THEN [call EXCEPT !.low = low, !.low_break = TRUE, !.pc = "hig_loop"]
                  ELSE [call EXCEPT !.low = low, !.passes = 1 - @]
          ELSE [call EXCEPT !.pc = "hig_loop"]
    /\ UNCHANGED <<statistical_models, stamp, clock>>
    /\ UNCHANGED recorderVars

\* one pass of the second while loop; leaving it, the function returns
HigLoop ==
    /\ call.op = "find_root_limits"
    /\ call.pc = "hig_loop"
    /\ call' =
          IF HigContinues(call.computer, call.hig)
          THEN LET hig == Double(call.hig)
               IN IF AboveHigLimit(hig)
                  THEN [call EXCEPT !.hig = hig, !.hig_break = TRUE, !.pc = "done"]
                  ELSE [call EXCEPT !.hig = hig, !.passes = 1 - @]
          ELSE [call EXCEPT !.pc = "done"]
    /\ UNCHANGED <<statistical_models, stamp, clock>>
    /\ UNCHANGED recorderVars

Returned == call.op = "find_root_limits" /\ call.pc = "done"

RootLimitsNext ==
    \/ \E computer \in Computers, low_ini \in Guesses, hig_ini \in Guesses :
          FindRootLimits(computer, low_ini, hig_ini)
    \/ LowLoop
    \/ HigLoop

InitRootLimits == CombinerIdle /\ RecorderIdle

\* a call that has been made runs on: its loops are not suspended
SpecRootLimits == InitRootLimits /\ [][RootLimitsNext]_vars /\ WF_vars(RootLimitsNext)

-----------------------------------------------------------------------------
(* find_poi_upper_limit *)

PyNone == <<"none", 0>>

PvalueRanges == {"nominal", "1sigma", "2sigma"}

\* lines 79-80: the band asked for, forced to nominal for observed
EffectiveRange(expected, expected_pvalue) ==
    IF expected = "observed" THEN "nominal" ELSE expected_pvalue

\* an index_range whose 1sigma entry is range(1, 3)
IndexRange_ShortBand(expected, expected_pvalue) ==
    IF expected_pvalue = "nominal" THEN (IF expected = "observed" THEN <<0>> ELSE <<2>>)
    ELSE IF expected_pvalue = "1sigma" THEN <<1, 2>>
    ELSE <<0, 1, 2, 3, 4>>

\* index_range[expected_pvalue], lines 109-113
IndexRange(expected, expected_pvalue) ==
    IF expected_pvalue = "nominal" THEN (IF expected = "observed" THEN <<0>> ELSE <<2>>)
    ELSE IF expected_pvalue = "1sigma" THEN <<1, 2, 3>>
    ELSE <<0, 1, 2, 3, 4>>

\* lines 84-85: 1.0 unless the guess is NaN
InitialGuess(init) ==
    IF init \in {PyNone, Zero} \/ ~IsNaN(init) THEN Pos(0) ELSE init

\* the roots toms748 finds, one for each of the five sigma points
RootTables == [0..4 -> 1..MaxRoot]

\* scipy.optimize.toms748(..., full_output=True) on one sigma point: with disp
\* set it raises RuntimeError when it has not converged, otherwise it returns
\* its estimate and the converged flag
Toms748(x0, converged, disp) ==
    IF ~converged /\ disp THEN [raised |-> "RuntimeError"]
    ELSE [raised |-> "none", x0 |-> x0, converged |-> converged]

\* line 118 does not pass disp: scipy's default applies
DispDefault == TRUE

\* find_poi_upper_limit; roots[i] is the estimate of the root-finder for
\* pvalue_idx i, and it converges for the indices outside not_converged
FindPoiUpperLimit(expected, expected_pvalue, allow_negative_signal, low_init, hig_init, roots, not_converged) ==
    /\ call.op = "init"
    /\ call' =
          IF expected_pvalue \notin PvalueRanges
          THEN [op |-> "find_poi_upper_limit", expected |-> expected,
                expected_pvalue |-> expected_pvalue, raised |-> "AssertionError"]
          ELSE LET index_range == IndexRange(expected,
                                             EffectiveRange(expected, expected_pvalue))
                   runs == [i \in 1..Len(index_range) |->
                               Toms748(Num(roots[index_range[i]]),
                                       index_range[i] \notin not_converged,
                                       DispDefault)]
                   raising == {i \in 1..Len(runs) : runs[i].raised # "none"}
                   last == IF raising = {} THEN Len(runs)
                           ELSE CHOOSE i \in raising : \A j \in raising : i <= j
                   result == [i \in 1..Len(runs) |-> runs[i].x0]
               IN [op |-> "find_poi_upper_limit", expected |-> expected,
                   expected_pvalue |-> expected_pvalue,
                   raised |-> IF raising = {} THEN "none" ELSE runs[last].raised,
                   test_stat |-> IF allow_negative_signal THEN "q" ELSE "qtilde",
                   low_init_arg |-> low_init, hig_init_arg |-> hig_init,
                   low_init |-> InitialGuess(low_init),
                   hig_init |-> InitialGuess(hig_init),
                   roots |-> roots, not_converged |-> not_converged,
                   index_range |-> index_range,
                   solved |-> SubSeq(index_range, 1, last),
                   warned |-> IF raising = {}
                              THEN SelectSeq(index_range,
                                             LAMBDA i : i \in not_converged)
                              ELSE <<>>,
                   ret |-> IF raising # {} THEN NoValue
                           ELSE IF Len(result) > 1 THEN <<"list", result>>
                           ELSE <<"float", result[1]>>]
    /\ UNCHANGED <<statistical_models, stamp, clock>>
    /\ UNCHANGED recorderVars

UpperLimitNext ==
    call.op = "init" /\
        \E expected \in ExpectationType, expected_pvalue \in PvalueRanges \cup {"3sigma"},
           allow_negative_signal \in BOOLEAN, low_init \in {PyNone, NaN, Pos(1)},
           hig_init \in {NaN, Pos(1)}, roots \in RootTables,
           not_converged \in SUBSET (0..4) :
            FindPoiUpperLimit(expected, expected_pvalue, allow_negative_signal,
                              low_init, hig_init, roots, not_converged)

InitUpperLimit == CombinerIdle /\ RecorderIdle

SpecUpperLimit == InitUpperLimit /\ [][UpperLimitNext]_vars

-----------------------------------------------------------------------------
(* StatisticsCombiner: maximize_likelihood, maximize_asimov_likelihood *)

\* model.backend.model.minimum_poi of a member
MinPois == {Num(0 - k) : k \in 1..MaxMinPoi}

\* a minimum_poi that takes the smallest of the members' values
MinimumPoi_Smallest(minimum) ==
    LET least == CHOOSE i \in 1..Len(minimum) :
                     \A j \in 1..Len(minimum) : FLe(minimum[i], minimum[j])
    IN minimum[least]

\* StatisticsCombiner.minimum_poi: max(...) over the members, in list order
RECURSIVE MaxFrom(_, _, _)
MaxFrom(minimum, i, best) ==
    IF i > Len(minimum) THEN best
    ELSE MaxFrom(minimum, i + 1, IF FLt(best, minimum[i]) THEN minimum[i] ELSE best)
MinimumPoi(minimum) == MaxFrom(minimum, 2, minimum[1])

\* bounds=[(self.minimum_poi if allow_negative_signal else 0.0, poi_upper_bound)];
\* max() of no member raises ValueError
PoiBounds(minimum, allow_negative_signal, poi_upper_bound) ==
    IF ~allow_negative_signal
    THEN [raised |-> "none", bounds |-> <<Num(0), poi_upper_bound>>]
    ELSE IF Len(minimum) = 0 THEN [raised |-> "ValueError"]
    ELSE [raised |-> "none", bounds |-> <<MinimumPoi(minimum), poi_upper_bound>>]

\* what scipy.optimize.minimize hands back: success, x and fun (twice the NLL)
OptimizeResults ==
    [success : BOOLEAN, x : {Num(0), Num(1)}, fun : {Num(0), Num(4)}]

\* the only argument of the exception of lines 264 and 308
Message == "Optimiser was not able to reach required precision."

\* lines 263-268 and 307-312: raise when the optimizer failed, unpack otherwise
AfterMinimize(opt, return_nll) ==
    IF ~opt.success
    THEN [raised |-> "RuntimeWarning",
          args |-> <<Message>>,
          ret |-> NoValue]
    ELSE LET nll == FDiv(opt.fun, Num(2))
         IN [raised |-> "none", args |-> <<>>,
             ret |-> <<opt.x, IF return_nll THEN nll ELSE ExpNeg(nll)>>]

\* the value a parameter takes in a call: the keyword passed, else the default
Passed(keywords, name, default) ==
    IF name \in DOMAIN keywords THEN keywords[name] ELSE default

\* the keywords twice_nll of maximize_asimov_likelihood calls
\* self.asimov_likelihood with (lines 293-295; mu is passed by position)
TwiceNllKeywords(expected, test_statistics) == [expected |-> expected]

\* asimov_likelihood, lines 165 and 185-190: the test_statistics every member's
\* asimov_likelihood is called with
MemberTestStatistics(keywords) == Passed(keywords, "test_statistics", "qtilde")

\* generate_asimov_data, line 319: the POI the Asimov fit is fixed to
FixedPoiValue(test_statistics) == IF test_statistics = "q0" THEN Num(1) ELSE Num(0)

\* a member's asimov_likelihood generates its Asimov data with the
\* test_statistics it was called with
MemberFixedPoi(test_statistics) == FixedPoiValue(test_statistics)

\* maximize_likelihood. minimum[i] is member i's minimum_poi, opt the result
\* of the optimizer.
MaximizeLikelihood(return_nll, expected, allow_negative_signal, poi_upper_bound, minimum, opt) ==
    LET bounds == PoiBounds(minimum, allow_negative_signal, poi_upper_bound)
        out == AfterMinimize(opt, return_nll)
    IN /\ call' =
             IF bounds.raised # "none"
             THEN [op |-> "maximize_likelihood", raised |-> bounds.raised,
                   minimum |-> minimum, ret |-> NoValue]
             ELSE [op |-> "maximize_likelihood", return_nll |-> return_nll,
                   expected |-> expected,
                   allow_negative_signal |-> allow_negative_signal,
                   poi_upper_bound |-> poi_upper_bound, minimum |-> minimum,
                   bounds |-> bounds.bounds, opt |-> opt,
                   raised |-> out.raised, args |-> out.args, ret |-> out.ret]
       /\ UNCHANGED <<statistical_models, stamp, clock>>
       /\ UNCHANGED recorderVars

\* maximize_asimov_likelihood
MaximizeAsimovLikelihood(return_nll, expected, test_statistics, poi_upper_bound, minimum, opt) ==
    LET allow_negative_signal == test_statistics \in {"q", "qmu"}
        bounds == PoiBounds(minimum, allow_negative_signal, poi_upper_bound)
        out == AfterMinimize(opt, return_nll)
        reaches == MemberTestStatistics(TwiceNllKeywords(expected, test_statistics))
    IN /\ call' =
             IF bounds.raised # "none"
             THEN [op |-> "maximize_asimov_likelihood", raised |-> bounds.raised,
                   minimum |-> minimum, ret |-> NoValue]
             ELSE [op |-> "maximize_asimov_likelihood", return_nll |-> return_nll,
                   expected |-> expected, test_statistics |-> test_statistics,
                   allow_negative_signal |-> allow_negative_signal,
                   poi_upper_bound |-> poi_upper_bound, minimum |-> minimum,
                   bounds |-> bounds.bounds, opt |-> opt,
                   member_test_statistics |-> [i \in 1..Len(minimum) |-> reaches],
                   member_fixed_poi |-> [i \in 1..Len(minimum) |->
                                            MemberFixedPoi(reaches)],
                   raised |-> out.raised, args |-> out.args, ret |-> out.ret]
       /\ UNCHANGED <<statistical_models, stamp, clock>>
       /\ UNCHANGED recorderVars

MaximizeNext ==
    \/ call.op = "init" /\
          \E return_nll \in BOOLEAN, expected \in ExpectationType,
             allow_negative_signal \in BOOLEAN, poi_upper_bound \in {Num(10), Num(40)},
             minimum \in [1..Len(statistical_models) -> MinPois],
             opt \in OptimizeResults :
              MaximizeLikelihood(return_nll, expected, allow_negative_signal,
                                 poi_upper_bound, minimum, opt)
    \/ call.op = "init" /\
          \E return_nll \in BOOLEAN, expected \in ExpectationType,
             test_statistics \in {"qtilde", "q", "qmu", "q0"},
             poi_upper_bound \in {Num(10), Num(40)},
             minimum \in [1..Len(statistical_models) -> MinPois],
             opt \in OptimizeResults :
              MaximizeAsimovLikelihood(return_nll, expected, test_statistics,
                                       poi_upper_bound, minimum, opt)

InitMaximize == LikelihoodInit /\ RecorderIdle

SpecMaximize == InitMaximize /\ [][MaximizeNext]_vars

-----------------------------------------------------------------------------
(* optimizer.core.fit. The caller owns three objects that outlive a call: the
   constraints list it may pass, the initial_parameters it may pass and the
   model configuration's suggested_init. They are kept in the call record
   next to the inputs and locals of the last call. *)

\* an initial vector as the caller holds it: a Python list or a numpy array
ParameterVectors(values) == [1..NPars -> values]
InitialParameters ==
    [kind : {"list", "ndarray"}, v : ParameterVectors({Num(0), Num(3)})]

\* the default initial_parameters=None of line 13
NoParameters == [kind |-> "None", v |-> <<>>]

\* a constraint the caller built itself, and the one fit builds (lines 28-31)
CallerConstraint == [type |-> "ineq", poi_index |-> 0 - 1, value |-> NoValue]
EqConstraint(poi_index, fixed_poi_value) ==
    [type |-> "eq", poi_index |-> poi_index, value |-> fixed_poi_value]

\* line 21, `initial_parameters or suggested_init`: None and empty containers
\* are false, a numpy array of several elements has no truth value
\* (ValueError), one of a single element has the truth value of the element
Or(initial_parameters, suggested_init) ==
    IF initial_parameters.kind = "None"
    THEN [raised |-> "none", v |-> suggested_init]
    ELSE IF Len(initial_parameters.v) = 0
    THEN [raised |-> "none", v |-> suggested_init]
    ELSE IF initial_parameters.kind = "list"
    THEN [raised |-> "none", v |-> initial_parameters.v]
    ELSE IF Len(initial_parameters.v) > 1
    THEN [raised |-> "ValueError", v |-> <<>>]
    ELSE IF initial_parameters.v[1] = Num(0)
    THEN [raised |-> "none", v |-> suggested_init]
    ELSE [raised |-> "none", v |-> initial_parameters.v]

\* a fit that drops the fixed parameter from the vector
SeedPoi_Remove(init_pars, poi_index, fixed_poi_value) ==
    [i \in 1..(Len(init_pars) - 1) |->
        IF i <= poi_index THEN init_pars[i] ELSE init_pars[i + 1]]

\* line 26: init_pars[poi_index] = fixed_poi_value (poi_index counts from 0)
SeedPoi(init_pars, poi_index, fixed_poi_value) ==
    [init_pars EXCEPT ![poi_index + 1] = fixed_poi_value]

\* what the caller holds before its first call
Callers ==
    [op : {"caller"}, calls : {0},
     constraints : {<<>>, <<CallerConstraint>>},
     initial_parameters : InitialParameters,
     suggested_init : ParameterVectors({Num(1), Num(2)}),
     poi_index : 0..(NPars - 1)]

\* fit, lines 21-44, up to the call of minimize. pass_constraints and
\* pass_initial say whether the caller passes its constraints list and its
\* initial_parameters or leaves the default None.
Fit(fixed_poi_value, pass_constraints, pass_initial) ==
    LET initial_parameters ==
            IF pass_initial THEN call.initial_parameters ELSE NoParameters
        start == Or(initial_parameters, call.suggested_init)
        \* line 24: the caller's list itself, or a new empty list
        constraints_in == IF pass_constraints THEN call.constraints ELSE <<>>
        init_pars ==
            IF fixed_poi_value = PyNone THEN start.v
            ELSE SeedPoi(start.v, call.poi_index, fixed_poi_value)
        constraints ==
            IF fixed_poi_value = PyNone THEN constraints_in
            ELSE Append(constraints_in, EqConstraint(call.poi_index, fixed_poi_value))
        before == IF call.op = "caller" THEN call ELSE call.before
    IN /\ call.op \in {"caller", "fit"}
       /\ call.calls < MaxFits
       /\ call' =
             IF start.raised # "none"
             THEN [op |-> "fit", calls |-> call.calls + 1,
                   constraints |-> call.constraints,
                   initial_parameters |-> call.initial_parameters,
                   suggested_init |-> call.suggested_init,
                   poi_index |-> call.poi_index, before |-> before,
                   fixed_poi_value |-> fixed_poi_value,
                   pass_constraints |-> pass_constraints,
                   pass_initial |-> pass_initial,
                   raised |-> start.raised, start |-> <<>>,
                   constraints_in |-> constraints_in,
                   minimize |-> [init_pars |-> <<>>, constraints |-> <<>>]]
             ELSE [op |-> "fit", calls |-> call.calls + 1,
                   \* list.append acts on the object the caller passed
                   constraints |-> IF pass_constraints THEN constraints
                                   ELSE call.constraints,
                   \* [*(...)] of line 21 is a new list
                   initial_parameters |-> call.initial_parameters,
                   suggested_init |-> call.suggested_init,
                   poi_index |-> call.poi_index, before |-> before,
                   fixed_poi_value |-> fixed_poi_value,
                   pass_constraints |-> pass_constraints,
                   pass_initial |-> pass_initial,
                   raised |-> "none", start |-> start.v,
                   constraints_in |-> constraints_in,
                   minimize |-> [init_pars |-> init_pars,
                                 constraints |-> constraints]]
       /\ UNCHANGED <<statistical_models, stamp, clock>>
       /\ UNCHANGED recorderVars

FitNext ==
    \E fixed_poi_value \in {PyNone, Num(0), Num(1)},
       pass_constraints \in BOOLEAN, pass_initial \in BOOLEAN :
        Fit(fixed_poi_value, pass_constraints, pass_initial)

InitFit ==
    /\ statistical_models = <<>>
    /\ stamp = <<>>
    /\ clock = 0
    /\ call \in Callers
    /\ RecorderIdle

SpecFit == InitFit /\ [][FitNext]_vars

-----------------------------------------------------------------------------
(* Claims about the model list *)

HeldNames == Range(analyses(statistical_models))
NamesOf(models) == Range(analyses(models))
Without(models, analysis) ==
    LET Keep(x) == x.analysis # analysis IN SelectSeq(models, Keep)

\* C1: after any sequence of append and remove calls, successful or failing,
\* the analysis names of the held models are pairwise distinct.
C1_NamesDistinct ==
    \A i, j \in 1..Len(statistical_models) :
        i # j => statistical_models[i].analysis # statistical_models[j].analysis

\* a failing duplicate append on a full list, after a remove has taken place
C1_Witness ==
    /\ Len(statistical_models) = 3
    /\ clock >= 4
    /\ call.op = "append"
    /\ call.raised = "AnalysisQueryError"

\* C2: append raises AnalysisQueryError exactly when a model of that analysis
\* name is already held, TypeError exactly when the argument is no
\* StatisticalModel, and in both cases leaves the list as it was.
C2_AppendErrors ==
    call.op = "append" =>
        /\ call.raised = "TypeError" <=> call.arg.type # "StatisticalModel"
        /\ call.raised = "AnalysisQueryError" <=>
               /\ call.arg.type = "StatisticalModel"
               /\ call.arg.analysis \in NamesOf(call.before)
        /\ call.raised # "none" => statistical_models = call.before
        /\ call.raised = "none" => statistical_models = Append(call.before, call.arg)

\* a second object with a held name was refused and the list kept
C2_Witness ==
    /\ call.op = "append"
    /\ call.raised = "AnalysisQueryError"
    /\ call.arg \notin Range(statistical_models)
    /\ Len(statistical_models) = 2

\* C3: the held models appear in the order of the append calls that added
\* them, and a remove keeps the relative order of the others.
C3_AdditionOrder ==
    /\ \A i, j \in 1..Len(statistical_models) :
           i < j => stamp[statistical_models[i]] < stamp[statistical_models[j]]
    /\ (call.op = "remove" /\ call.raised = "none") =>
           statistical_models = Without(call.before, call.arg)

\* a model removed from the middle of three, then one appended again
C3_Witness ==
    /\ Len(statistical_models) = 3
    /\ clock = 4
    /\ stamp[statistical_models[1]] = 1
    /\ stamp[statistical_models[2]] = 3
    /\ stamp[statistical_models[3]] = 4

\* C4: remove(name) and combiner[name] raise AnalysisQueryError when no held
\* model has that name and leave the list unchanged; when the name is held,
\* remove deletes the model of that name and no other, and lookup returns it.
C4_UnknownAnalysis ==
    /\ call.op = "remove" =>
          /\ call.raised = "AnalysisQueryError" <=> call.arg \notin NamesOf(call.before)
          /\ call.raised = "AnalysisQueryError" => statistical_models = call.before
          /\ call.raised = "none" =>
                /\ Len(statistical_models) = Len(call.before) - 1
                /\ call.arg \notin HeldNames
                /\ statistical_models = Without(call.before, call.arg)
    /\ call.op = "getitem" =>
          /\ call.raised = "AnalysisQueryError" <=> call.arg \notin NamesOf(call.before)
          /\ statistical_models = call.before
          /\ call.raised = "none" =>
                /\ call.ret \in Range(statistical_models)
                /\ call.ret.analysis = call.arg

\* an unknown name was asked to be removed from a non-empty list
C4_Witness ==
    /\ call.op = "remove"
    /\ call.raised = "AnalysisQueryError"
    /\ Len(statistical_models) = 2

-----------------------------------------------------------------------------
(* Claims about the joint likelihood *)

\* the plain left-to-right sum of the first n member values
RECURSIVE SumFirst(_, _)
SumFirst(resp, n) == IF n = 0 THEN Num(0) ELSE FAdd(SumFirst(resp, n - 1), resp[n])

\* member i is where the joint value first becomes NaN: it raises, or the sum
\* up to it is NaN
TurnsNaN(resp, i) ==
    /\ \A j \in 1..(i - 1) : resp[j] # Raise
    /\ ~IsNaN(SumFirst(resp, i - 1))
    /\ resp[i] = Raise \/ IsNaN(SumFirst(resp, i))

\* C5: likelihood with return_nll=True is the sum over all members, in list
\* order, of each member's own value, when no member raises or returns NaN.
C5_Additivity ==
    (/\ call.op = "likelihood"
     /\ call.return_nll
     /\ \A i \in 1..Len(call.resp) : call.resp[i] # Raise /\ ~IsNaN(call.resp[i]))
    => /\ call.ret = SumFirst(call.resp, Len(call.resp))
       /\ call.evaluated = Len(call.resp) \/ IsNaN(call.ret)
       /\ Len(call.resp) = Len(statistical_models)

\* three members with finite values that add up to more than any one of them
C5_Witness ==
    /\ call.op = "likelihood"
    /\ call.return_nll
    /\ Len(call.resp) = 3
    /\ call.resp = <<Num(1), Num(2), Num(1)>>
    /\ call.ret = Num(4)

\* C6: once a member raises NegativeExpectedYields or the running sum is NaN,
\* the joint value is NaN, no later member is evaluated, nothing is raised to
\* the caller, and NaN is returned for return_nll True and False alike.
C6_ShortCircuit ==
    call.op = "likelihood" =>
        \A i \in 1..Len(call.resp) :
            TurnsNaN(call.resp, i) =>
                /\ call.ret = NaN
                /\ call.evaluated = i
                /\ call.raised = "none"

\* the first of three members raised and likelihood (not NLL) was asked for
C6_Witness ==
    /\ call.op = "likelihood"
    /\ ~call.return_nll
    /\ Len(call.resp) = 3
    /\ call.resp[1] = Raise
    /\ call.resp[2] = Num(1)
    /\ call.evaluated = 1
    /\ call.ret = NaN

\* C7: asimov_likelihood returns NaN instead of raising when a member raises
\* NegativeExpectedYields, as likelihood does.
C7_AsimovCatches ==
    call.op = "asimov_likelihood" =>
        \A i \in 1..Len(call.resp) :
            TurnsNaN(call.resp, i) =>
                /\ call.ret = NaN
                /\ call.evaluated = i
                /\ call.raised = "none"

-----------------------------------------------------------------------------
(* Claims about the Recorder *)

\* C8: for each expectation type the best-likelihood slot changes only when
\* record_maximum_likelihood brings a strictly lower NLL than the stored one,
\* so it holds the minimum recorded so far and the first pair on a tie.
C8_StrictImprovement ==
    [][\A r \in Recorders, e \in ExpectationType :
          maximum_likelihood_record'[r][e] # maximum_likelihood_record[r][e] =>
              \/ maximum_likelihood_record[r][e] = EmptySlot
              \/ maximum_likelihood_record'[r][e][3] < maximum_likelihood_record[r][e][3]
      ]_vars

\* what every get_* call returns in the current state is the sentinel
AllNotFound ==
    \A r \in Recorders, e \in ExpectationType :
        /\ get_maximum_likelihood(RECORD, maximum_likelihood_record[r], e) = EmptySlot
        /\ \A poi \in POIs :
               get_poi_test(RECORD, poi_test_record[r], e, poi) = NotFound

\* the entry of snap under key (r, e, k) is returned as it was at turn_off
PoiReturned(r, e, k) ==
    get_poi_test(RECORD, poi_test_record[r], e, k) = Found(snap.poi[r][e][k])
SlotReturned(r, e) ==
    get_maximum_likelihood(RECORD, maximum_likelihood_record[r], e) = snap.ml[r][e]

\* C9 as stated: with the switch off every get_* returns the sentinel on
\* every instance; once turn_on is called, every entry recorded before the
\* turn_off is returned unchanged.
C9_RestoredAfterTurnOn ==
    /\ ~RECORD => AllNotFound
    /\ (RECORD /\ snap.taken /\ rcall.op = "turn_on") =>
           \A r \in Recorders, e \in ExpectationType :
               /\ \A k \in DOMAIN snap.poi[r][e] : PoiReturned(r, e, k)
               /\ snap.ml[r][e] # EmptySlot => SlotReturned(r, e)

\* C9 as amended: with the switch off every get_* returns the sentinel on
\* every instance; with the switch on again, every entry recorded before the
\* turn_off is returned unchanged unless a record call for its key (for the
\* slot: for its expectation type) was made on that instance since the
\* turn_off.
C9_RestoredUnlessRecorded ==
    /\ ~RECORD => AllNotFound
    /\ (RECORD /\ snap.taken) =>
           \A r \in Recorders, e \in ExpectationType :
               /\ \A k \in DOMAIN snap.poi[r][e] :
                      PoiKey(r, e, k) \notin touched => PoiReturned(r, e, k)
               /\ (snap.ml[r][e] # EmptySlot /\ SlotKey(r, e) \notin touched) =>
                      SlotReturned(r, e)

\* turn_on has just been called; one entry from before the turn_off is
\* untouched and visible again, another key was recorded while it was off
C9_Witness ==
    /\ RECORD
    /\ snap.taken
    /\ rcall.op = "turn_on"
    /\ touched # {}
    /\ \E r \in Recorders, e \in ExpectationType :
           \E k \in DOMAIN snap.poi[r][e] :
               /\ PoiKey(r, e, k) \notin touched
               /\ PoiReturned(r, e, k)

\* C10: a likelihood request served through the Recorder returns the same
\* value with the switch on as with the switch off.
C10_CachingTransparent ==
    rcall.op = "likelihood" => rcall.ret = rcall.ret_off

\* every per-POI entry and slot other than the named ones is as it was
OtherEntriesKept(r, e, key) ==
    \A r2 \in Recorders, e2 \in ExpectationType :
        /\ DOMAIN poi_test_record[r2][e2] \subseteq DOMAIN poi_test_record'[r2][e2]
        /\ \A k \in DOMAIN poi_test_record'[r2][e2] :
               <<r2, e2, k>> # <<r, e, key>> =>
                   /\ k \in DOMAIN poi_test_record[r2][e2]
                   /\ poi_test_record'[r2][e2][k] = poi_test_record[r2][e2][k]
OtherSlotsKept(r, e) ==
    \A r2 \in Recorders, e2 \in ExpectationType :
        <<r2, e2>> # <<r, e>> =>
            maximum_likelihood_record'[r2][e2] = maximum_likelihood_record[r2][e2]

\* C11 as stated: while the switch is off, record_poi_test and
\* record_maximum_likelihood leave the per-POI record and the slot unchanged.
C11_RecordNoOpWhenOff ==
    [][~RECORD =>
          /\ poi_test_record' = poi_test_record
          /\ maximum_likelihood_record' = maximum_likelihood_record
      ]_vars

\* C11 as amended: while the switch is off the record calls still write.
\* record_poi_test stores the single-precision NLL under the single-precision
\* POI of its expectation type and changes no other entry and no slot;
\* record_maximum_likelihood puts its pair in the slot of its expectation
\* type and changes no other slot and no entry.
C11_RecordsWhenOff ==
    [][\A r \in Recorders, e \in ExpectationType, poi \in POIs, nll \in NLLs :
          /\ (~RECORD /\ RecordPoiTest(r, e, poi, nll)) =>
                 /\ F32(poi) \in DOMAIN poi_test_record'[r][e]
                 /\ poi_test_record'[r][e][F32(poi)] = F32(nll)
                 /\ OtherEntriesKept(r, e, F32(poi))
                 /\ maximum_likelihood_record' = maximum_likelihood_record
          /\ (~RECORD /\ RecordMaximumLikelihood(r, e, poi, nll)) =>
                 /\ maximum_likelihood_record'[r][e] = Pair(F32(poi), F32(nll))
                 /\ OtherSlotsKept(r, e)
                 /\ poi_test_record' = poi_test_record
      ]_vars

\* with the switch off since construction, an entry was stored and then a
\* second record_poi_test replaced its value
C11_Witness ==
    /\ ~RECORD
    /\ rcall.op = "record_poi_test"
    /\ nrec = 2
    /\ \E r \in Recorders :
           /\ DOMAIN poi_test_record[r]["observed"] = {3}
           /\ poi_test_record[r]["observed"][3] = 3
           /\ maximum_likelihood_record[r]["observed"] = EmptySlot

\* C12: a record call for one expectation type leaves the entries and slots
\* of the other two types, and what get_* return for them, as they were; a
\* get_* call for one type returns the entry held under that type.
C12_TypesNotMixed ==
    [][/\ \A r \in Recorders, e \in ExpectationType, poi \in POIs, nll \in NLLs :
             (RecordPoiTest(r, e, poi, nll) \/ RecordMaximumLikelihood(r, e, poi, nll)) =>
                 \A e2 \in ExpectationType \ {e} :
                     /\ poi_test_record'[r][e2] = poi_test_record[r][e2]
                     /\ maximum_likelihood_record'[r][e2] = maximum_likelihood_record[r][e2]
                     /\ get_maximum_likelihood(TRUE, maximum_likelihood_record'[r], e2)
                            = get_maximum_likelihood(TRUE, maximum_likelihood_record[r], e2)
                     /\ \A p2 \in POIs :
                            get_poi_test(TRUE, poi_test_record'[r], e2, p2)
                                = get_poi_test(TRUE, poi_test_record[r], e2, p2)
       /\ \A r \in Recorders, e \in ExpectationType, poi \in POIs :
             GetPoiTest(r, e, poi) =>
                 \/ rcall'.ret = NotFound
                 \/ /\ F32(poi) \in DOMAIN poi_test_record[r][e]
                    /\ rcall'.ret = Found(poi_test_record[r][e][F32(poi)])
       /\ \A r \in Recorders, e \in ExpectationType :
             GetMaximumLikelihood(r, e) =>
                 rcall'.ret \in {EmptySlot, maximum_likelihood_record[r][e]}
      ]_vars

\* one key holds different values under two expectation types of the same
\* Recorder and get_poi_test returned the one of the type it was asked for
C12_Witness ==
    /\ rcall.op = "get_poi_test"
    /\ rcall.expected = "observed"
    /\ rcall.ret = Found(0)
    /\ 0 \in DOMAIN poi_test_record[rcall.r]["apriori"]
    /\ poi_test_record[rcall.r]["apriori"][0] = 3

-----------------------------------------------------------------------------
(* Claims about the test statistics and the p-values *)

\* qmu as the claim describes it: 0 when nll <= min, twice the difference
\* otherwise, and in both cases >= 0
ClampedAsClaimed(q, nll, min) ==
    /\ FLe(Num(0), q)
    /\ FLe(nll, min) => q = Num(0)
    /\ ~FLe(nll, min) => q = Twice(FSub(nll, min))

\* the difference nll - min is a number or an infinity, not NaN
DifferenceDefined(nll, min) == ~IsNaN(FSub(nll, min))

\* C13 as stated: for every kind and every quadruple of likelihood values,
\* qmu and qmuA are >= 0, are 0 when the NLL at mu is <= the minimum NLL, and
\* are twice the difference otherwise.
C13_ClampedAlways ==
    call.op = "teststatistics" =>
        /\ ClampedAsClaimed(call.qmu, call.nll, call.min_nll)
        /\ ClampedAsClaimed(call.qmuA, call.nllA, call.min_nllA)

\* C13 as amended: the same, for each pair of likelihood values whose
\* difference is not NaN (neither value is NaN and they are not the same
\* infinity); for the other pairs qmu, respectively qmuA, is NaN.
C13_ClampedWhenDefined ==
    call.op = "teststatistics" =>
        /\ IF DifferenceDefined(call.nll, call.min_nll)
           THEN ClampedAsClaimed(call.qmu, call.nll, call.min_nll)
           ELSE IsNaN(call.qmu)
        /\ IF DifferenceDefined(call.nllA, call.min_nllA)
           THEN ClampedAsClaimed(call.qmuA, call.nllA, call.min_nllA)
           ELSE IsNaN(call.qmuA)

\* a negative excursion of the observed pair was clamped while the Asimov
\* pair gave twice its difference
C13_Witness ==
    /\ call.op = "teststatistics"
    /\ call.nll = Num(1)
    /\ call.min_nll = Num(3)
    /\ call.qmu = Num(0)
    /\ call.nllA = Num(3)
    /\ call.min_nllA = Num(1)
    /\ call.qmuA = Num(4)

\* C14: the signed statistic is sqrt(qmu) - sqrt(qmuA) for the kinds q and q0
\* in every case; for qtilde it is that difference when sqrt(qmu) <=
\* sqrt(qmuA) and (qmu - qmuA) / (2 sqrt(qmuA)) otherwise.
C14_SignedStatistic ==
    call.op = "teststatistics" =>
        LET difference == FSub(FSqrt(call.qmu), FSqrt(call.qmuA))
            alternate == FDiv(FSub(call.qmu, call.qmuA), Twice(FSqrt(call.qmuA)))
        IN /\ call.sqrt_qmu = FSqrt(call.qmu)
           /\ call.sqrt_qmuA = FSqrt(call.qmuA)
           /\ call.test_stat \in {"q", "q0"} => call.test_statistics = difference
           /\ call.test_stat = "qtilde" =>
                  call.test_statistics =
                      IF FLe(call.sqrt_qmu, call.sqrt_qmuA) THEN difference
                      ELSE alternate

\* qtilde with sqrt(qmu) > sqrt(qmuA) > 0, where the alternate branch gives
\* another value than the difference
C14_Witness ==
    /\ call.op = "teststatistics"
    /\ call.test_stat = "qtilde"
    /\ call.qmu = Num(6)
    /\ call.qmuA = Num(2)
    /\ call.sqrt_qmu = Num(2)
    /\ call.sqrt_qmuA = Num(1)
    /\ call.test_statistics = Num(2)

\* C15: pvalues returns CLs = 0.0 when CLb = 0, and when CLb is a non-zero
\* probability (and CLsb a probability) the quotient CLsb / CLb, a finite
\* number: never NaN or an infinity.
C15_ClsGuarded ==
    call.op = "pvalues" =>
        /\ call.ret = << <<call.CLsb>>, <<call.CLb>>, <<call.CLs>> >>
        /\ call.CLb = Num(0) => call.CLs = Num(0)
        /\ (call.CLb[1] = "num" /\ call.CLb # Num(0) /\ call.CLsb[1] = "num") =>
               call.CLs[1] = "num"

\* C16: expected_value(0) of a distribution with shift 0 is max(0, cutoff);
\* for a fixed shift and cutoff expected_value never decreases as nsigma
\* grows, and grows strictly wherever it is above the cutoff.
C16_ExpectedValue ==
    call.op = "expected_value" =>
        /\ (call.self.shift = Num(0) /\ call.nsigma = Num(0)) =>
               call.ret = IF FLt(Num(0), call.self.cutoff) THEN call.self.cutoff
                          ELSE Num(0)
        /\ \A larger \in Sigmas :
               FLt(call.nsigma, larger) =>
                   /\ FLe(call.ret, ExpectedValue(call.self, larger))
                   /\ (FLt(call.self.cutoff, call.ret) /\ call.ret[1] = "num") =>
                          FLt(call.ret, ExpectedValue(call.self, larger))

\* nsigma 0 on a distribution of shift 0 whose cutoff is above 0
C16_Witness ==
    /\ call.op = "expected_value"
    /\ call.self = Distribution(Num(0), Num(1))
    /\ call.nsigma = Num(0)
    /\ call.ret = Num(1)

-----------------------------------------------------------------------------
(* Claims about the upper-limit solver *)

C19_Terminates ==
    (call.op = "find_root_limits") ~> Returned

\* the indices find_poi_upper_limit is to solve, as the claim lists them
ClaimedIndices(expected, expected_pvalue) ==
    IF expected = "observed" THEN {}
    ELSE IF expected_pvalue = "nominal" THEN {2}
    ELSE IF expected_pvalue = "1sigma" THEN {1, 2, 3}
    ELSE {0, 1, 2, 3, 4}

\* C20: for observed one root is solved whatever band is asked for; otherwise
\* nominal solves index 2, 1sigma indices 1, 2, 3 and 2sigma indices 0..4;
\* one root is returned as a number, several as a list in index order.
C20_SigmaPoints ==
    (call.op = "find_poi_upper_limit" /\ call.raised = "none") =>
        /\ call.expected = "observed" => Len(call.solved) = 1
        /\ call.expected # "observed" =>
               /\ Range(call.solved) = ClaimedIndices(call.expected, call.expected_pvalue)
               /\ \A i, j \in 1..Len(call.solved) :
                      i < j => call.solved[i] < call.solved[j]
        /\ IF Len(call.solved) = 1
           THEN call.ret = <<"float", Num(call.roots[call.solved[1]])>>
           ELSE /\ call.ret[1] = "list"
                /\ Len(call.ret[2]) = Len(call.solved)
                /\ \A i \in 1..Len(call.solved) :
                       call.ret[2][i] = Num(call.roots[call.solved[i]])

\* the 1sigma band of an expected limit: three roots, the middle one differing
C20_Witness ==
    /\ call.op = "find_poi_upper_limit"
    /\ call.expected = "apriori"
    /\ call.expected_pvalue = "1sigma"
    /\ call.solved = <<1, 2, 3>>
    /\ call.roots[1] = 1
    /\ call.roots[2] = 2
    /\ call.roots[3] = 1
    /\ call.ret = <<"list", <<Num(1), Num(2), Num(1)>> >>

-----------------------------------------------------------------------------
(* Claims about indexed access, the confidence level and the fits *)

\* C30: combiner[i] returns the model at position i for 0 <= i < len and
\* raises AnalysisQueryError for every other integer, negative ones included.
C30_IndexChecked ==
    call.op = "getitem_int" =>
        /\ statistical_models = call.before
        /\ IF call.arg >= 0 /\ call.arg < Len(call.before)
           THEN call.raised = "none" /\ call.ret = call.before[call.arg + 1]
           ELSE call.raised = "AnalysisQueryError"

\* C26: with kind qtilde the alternate branch is taken only when
\* sqrt(qmuA) > 0, so no pair of numbers qmu, qmuA leads to a division by 0.
C26_NoDivisionByZero ==
    (/\ call.op = "teststatistics"
     /\ call.test_stat = "qtilde"
     /\ call.sqrt_qmu[1] = "num"
     /\ call.sqrt_qmuA[1] = "num"
     /\ ~FLe(call.sqrt_qmu, call.sqrt_qmuA))
    => /\ FLt(Num(0), call.sqrt_qmuA)
       /\ call.test_statistics[1] = "num"

\* C27: compute_confidence_level builds the signal-plus-background
\* distribution with shift -sqrt_qmuA and the background-only one with shift
\* 0; both have cutoff -inf for observed, and for the expected types the
\* signal-plus-background one has cutoff 0 and the other cutoff -inf.
C27_Cutoffs ==
    call.op = "compute_confidence_level" =>
        /\ call.sig_plus_bkg_distribution.shift = FNeg(call.sqrt_qmuA)
        /\ call.bkg_only_distribution = Distribution(Num(0), NInf)
        /\ call.sig_plus_bkg_distribution.cutoff =
               IF call.expected = "observed" THEN NInf ELSE Num(0)

\* C21: when the root-finder does not converge for a sigma point,
\* find_poi_upper_limit does not raise; it warns, keeps the root-finder's
\* estimate for that point and goes on with the remaining points.
C21_WarnsAndContinues ==
    (call.op = "find_poi_upper_limit" /\ call.expected_pvalue \in PvalueRanges) =>
        /\ call.raised = "none"
        /\ call.solved = call.index_range
        /\ call.warned = SelectSeq(call.index_range,
                                   LAMBDA i : i \in call.not_converged)
        /\ call.ret \in {<<"float", Num(call.roots[call.index_range[1]])>>,
                         <<"list", [i \in 1..Len(call.index_range) |->
                                      Num(call.roots[call.index_range[i]])]>>}

\* the guess the claim has find_root_limits start from
GuessAsClaimed(init) == IF init \in {PyNone, NaN} THEN Pos(0) ELSE init

\* C28: the bracketing starts from the caller's low_init and hig_init when
\* they are numbers, from 1.0 when they are None or NaN; find_root_limits
\* is never handed a NaN.
C28_GuessesKept ==
    (call.op = "find_poi_upper_limit" /\ call.expected_pvalue \in PvalueRanges) =>
        /\ call.low_init = GuessAsClaimed(call.low_init_arg)
        /\ call.hig_init = GuessAsClaimed(call.hig_init_arg)
        /\ ~IsNaN(call.low_init)
        /\ ~IsNaN(call.hig_init)

\* C22: with test_statistics="q0" every member's asimov_likelihood is called
\* with "q0" and generates its Asimov data with the POI fixed to 1; for the
\* other test statistics the requested value reaches the members too and the
\* POI is fixed to 0.
C22_TestStatisticsReaches ==
    (call.op = "maximize_asimov_likelihood" /\ call.raised # "ValueError") =>
        \A i \in 1..Len(call.minimum) :
            /\ call.member_test_statistics[i] = call.test_statistics
            /\ call.member_fixed_poi[i] =
                   IF call.test_statistics = "q0" THEN Num(1) ELSE Num(0)

\* C23: when the optimizer reports non-convergence the call raises a runtime
\* error and the optimizer's last POI and NLL still reach the caller.
C23_EstimateSurfaced ==
    (/\ call.op \in {"maximize_likelihood", "maximize_asimov_likelihood"}
     /\ call.raised # "ValueError"
     /\ ~call.opt.success)
    => /\ call.raised \in {"RuntimeError", "RuntimeWarning"}
       /\ \/ call.ret # NoValue
          \/ \E i \in 1..Len(call.args) : call.args[i] # Message

\* C25: the lower POI bound of both maximizations is the largest of the
\* members' minimum POIs when negative signal is allowed and 0 otherwise;
\* the upper bound is poi_upper_bound.
C25_PoiBounds ==
    (/\ call.op \in {"maximize_likelihood", "maximize_asimov_likelihood"}
     /\ call.raised # "ValueError")
    => /\ call.bounds[2] = call.poi_upper_bound
       /\ ~call.allow_negative_signal => call.bounds[1] = Num(0)
       /\ call.allow_negative_signal =>
              /\ call.bounds[1] \in Range(call.minimum)
              /\ \A i \in 1..Len(call.minimum) : FLe(call.minimum[i], call.bounds[1])
       /\ call.op = "maximize_asimov_likelihood" =>
              call.allow_negative_signal = (call.test_statistics \in {"q", "qmu"})

\* three members whose minimum POIs differ, negative signal allowed
C25_Witness ==
    /\ call.op = "maximize_likelihood"
    /\ call.raised # "ValueError"
    /\ call.allow_negative_signal
    /\ call.minimum = <<Num(-2), Num(-1), Num(-2)>>
    /\ call.bounds = <<Num(-1), Num(10)>>

\* C24: with a fixed_poi_value the vector handed to the minimizer has the POI
\* entry equal to the value and every other entry as in the starting vector,
\* the same length, and exactly one equality constraint pinning the POI to
\* the value is added to the constraints; with None the vector and the
\* constraints are handed on as they are.
C24_FixedPoiSeeded ==
    (call.op = "fit" /\ call.raised = "none") =>
        LET init_pars == call.minimize.init_pars
            constraints == call.minimize.constraints
            n == Len(call.constraints_in)
        IN IF call.fixed_poi_value = PyNone
           THEN init_pars = call.start /\ constraints = call.constraints_in
           ELSE /\ Len(init_pars) = Len(call.start)
                /\ \A i \in 1..Len(call.start) :
                       init_pars[i] = IF i = call.poi_index + 1
                                      THEN call.fixed_poi_value
                                      ELSE call.start[i]
                /\ Len(constraints) = n + 1
                /\ SubSeq(constraints, 1, n) = call.constraints_in
                /\ constraints[n + 1] =
                       EqConstraint(call.poi_index, call.fixed_poi_value)

\* a fixed POI that differs from the starting value, next to a nuisance
\* parameter, with a constraint of the caller already in the list
C24_Witness ==
    /\ call.op = "fit"
    /\ call.raised = "none"
    /\ call.pass_initial
    /\ call.fixed_poi_value = Num(1)
    /\ call.poi_index = 1
    /\ call.start = <<Num(3), Num(0)>>
    /\ call.minimize.init_pars = <<Num(3), Num(1)>>
    /\ call.constraints_in = <<CallerConstraint>>
    /\ Len(call.minimize.constraints) = 2

\* C29: after any number of fit calls the caller's constraints list, its
\* initial_parameters and the configuration's suggested_init hold what they
\* held before the first call.
C29_ArgumentsKept ==
    call.op = "fit" =>
        /\ call.constraints = call.before.constraints
        /\ call.initial_parameters = call.before.initial_parameters
        /\ call.suggested_init = call.before.suggested_init

====
